---- MODULE Spec2Model ----
(***************************************************************************)
(* headless-markets: the off-chain collaboration ledger                    *)
(* (CollaborationService / OnChainVerificationService, TypeScript) and the *)
(* on-chain bonding-curve token (BondingCurveToken, Solidity).             *)
(*                                                                         *)
(* SpecLedger explores the ledger, SpecCurve the token contract.  Each     *)
(* leaves the other half of the state at its initial value.                *)
(***************************************************************************)
EXTENDS Integers, Sequences, FiniteSets, Bags

\* ------------------------------------------------------------------------
\* Bounds of the ledger model
\* ------------------------------------------------------------------------
NumAgents == 3        \* Product (agent) ids 1..NumAgents
MaxCollabs == 2       \* rows of the collaboration table
MaxVotes == 3         \* rows of the vote table
MaxTime == 4          \* the clock reads 0..MaxTime; each call reads a later time
MaxBatch == 2         \* events in one batch posted to the sync endpoint

Agents == 1..NumAgents

\* Transaction hashes the feed delivers, and quorum ids as the chain numbers them
TxHashes == {"0x123", "0x456"}
ChainQuorumIds == {1, 2}

\* agentIds lists a caller passes to createCollaboration: {1}, {1,2}, ...
AgentIdLists == {1..k : k \in 1..NumAgents}

\* ------------------------------------------------------------------------
\* Values
\* ------------------------------------------------------------------------
NULL == "NULL"        \* undefined / a nullable column that is not set

\* enum CollaborationStatus
PENDING == "pending"
VOTING == "voting"
ACTIVE == "active"
COMPLETED == "completed"
FAILED == "failed"

\* quorumId.toString(): the event carries a number, the ledger keeps a string
toString(n) == IF n = 1 THEN "1" ELSE "2"
QuorumIds == {toString(n) : n \in ChainQuorumIds}

\* Deployed token contracts: address, and what name() / symbol() answer
TokenAddresses == {"0xT1", "0xT2"}
tokenContractName(addr) == IF addr = "0xT1" THEN "Token One" ELSE "Token Two"
tokenContractSymbol(addr) == IF addr = "0xT1" THEN "ONE" ELSE "TWO"

\* A market-cap observation (a decimal string); the column defaults to "0"
MarketCaps == {"1.5"}

\* Wallet address of an agent profile (customFields.walletAddress)
walletOf(a) == <<"wallet", a>>
UnknownWallet == <<"wallet", 0>>
Wallets == {walletOf(a) : a \in Agents} \cup {UnknownWallet}

\* customFields defaults of an agent's product: collaborationCount 0,
\* successRate 0 (a fraction <<numerator, denominator>> of percent)
NoStats == [collaborationCount |-> 0, successRate |-> <<0, 1>>]

\* ------------------------------------------------------------------------
\* State
\* ------------------------------------------------------------------------
VARIABLES
    collaborations,   \* collaboration table: id -> row (ids 1..Len)
    votes,            \* vote table: a bag of rows (the generated ids left out)
    now,              \* the clock new Date() reads
    replay,           \* the event batch the reconciler is replaying, if any
    requests,         \* recordVote calls in flight: where each stands, what it read
    agentStats,       \* product customFields: collaborationCount, successRate
    ret,              \* outcome of the last call: "ok", or the error thrown
    \* BondingCurveToken
    totalETHRaised,   \* uint256 public totalETHRaised
    liquidityReserve, \* uint256 public liquidityReserve
    graduated,        \* bool public graduated
    balance,          \* address(this).balance
    totalSupply,      \* ERC20 totalSupply()
    balanceOf,        \* ERC20 balanceOf: account -> token units
    locked,           \* ReentrancyGuard: a nonReentrant function is running
    stack,            \* calls of the contract waiting for an external call to return
    txCount,          \* successful calls so far
    \* what the contract has emitted and paid out
    lastBuy,          \* TokensPurchased / FeesDistributed of the last buy, or <<>>
    graduations,      \* number of Graduated events emitted
    accruedAgentFees, \* sum of agentFee over the completed buys
    received,         \* ETH taken in by receive()
    claimed,          \* member -> ETH paid to it by claimAgentFees
    claimChain        \* the claims made since the balance or the reserve last
                      \* changed otherwise: <<[basis, paid], ...>>

ledgerVars == <<collaborations, votes, now, replay, requests, agentStats>>

tokenVars ==
    <<totalETHRaised, liquidityReserve, graduated, balance, totalSupply, balanceOf,
      locked, stack, txCount, lastBuy, graduations, accruedAgentFees, received,
      claimed, claimChain>>

vars == <<collaborations, votes, now, replay, requests, agentStats, ret, tokenVars>>

CollabIds == 1..Len(collaborations)

\* A Collaboration created with a fixed quorum size instead of agents.length
newCollaborationFixedQuorum(quorumId, agents) ==
    [quorumId |-> quorumId,
     agents |-> agents,
     status |-> PENDING,
     tokenAddress |-> NULL,
     tokenName |-> NULL,
     tokenSymbol |-> NULL,
     marketCap |-> "0",
     graduated |-> FALSE,
     graduatedAt |-> <<>>,
     votesReceived |-> 0,
     requiredVotes |-> 3]

\* new Collaboration({...}) of createCollaboration; the other columns take
\* their entity defaults
newCollaboration(quorumId, agents) ==
    [quorumId |-> quorumId,
     agents |-> agents,
     status |-> PENDING,
     tokenAddress |-> NULL,
     tokenName |-> NULL,
     tokenSymbol |-> NULL,
     marketCap |-> "0",
     graduated |-> FALSE,
     graduatedAt |-> <<>>,
     votesReceived |-> 0,
     requiredVotes |-> Cardinality(agents)]

\* new Vote({collaboration, agent, transactionHash, votedAt});
\* collaboration is the row id or NULL-like 0 when findOne found nothing
newVote(collaborationId, agentId, transactionHash) ==
    [collaboration |-> collaborationId,
     agent |-> agentId,
     transactionHash |-> transactionHash]

\* A save that writes over the rows already there
overwrite(table, row) == SetToBag({row})

\* getRepository(Vote).save(vote): one more row
insert(table, row) == table (+) SetToBag({row})

\* ------------------------------------------------------------------------
\* Repository lookups
\* ------------------------------------------------------------------------
\* findOne({where: {id}}): the set of matching ids (empty: undefined)
findOne(id) == {c \in CollabIds : c = id}

\* findOne({where: {quorumId}}): candidates; the store returns one of them
findByQuorumId(quorumId) == {c \in CollabIds : collaborations[c].quorumId = quorumId}

\* A lookup that yields a row whatever the address
findWithoutWhere(tokenAddress) == CollabIds

\* findOne({where: {tokenAddress}})
findByTokenAddress(tokenAddress) ==
    {c \in CollabIds : collaborations[c].tokenAddress = tokenAddress}

\* ------------------------------------------------------------------------
\* CollaborationService
\* ------------------------------------------------------------------------
createCollaboration(quorumId, agentIds) ==
    /\ Len(collaborations) < MaxCollabs
    /\ collaborations' = Append(collaborations, newCollaboration(quorumId, agentIds))
    /\ ret' = "ok"
    /\ UNCHANGED <<votes, agentStats>>

\* A vote count that moves to VOTING one vote late (> for ===)
CountVoteAfterLast(row) ==
    LET n == row.votesReceived + 1
    IN  [row EXCEPT !.votesReceived = n,
                    !.status = IF n > row.requiredVotes THEN VOTING ELSE @]

\* The row written back by recordVote: votesReceived += 1, and VOTING when
\* the count equals requiredVotes
CountVote(row) ==
    LET n == row.votesReceived + 1
    IN  [row EXCEPT !.votesReceived = n,
                    !.status = IF n = row.requiredVotes THEN VOTING ELSE @]

\* recordVote saves the Vote first, then dereferences the collaboration:
\* with an unknown id the Vote row is kept and a TypeError is thrown.
recordVoteEffect(collaborationId, agentId, transactionHash) ==
    IF findOne(collaborationId) = {}
    THEN /\ votes' = insert(votes, newVote(0, agentId, transactionHash))
         /\ ret' = "TypeError"
         /\ UNCHANGED <<collaborations, agentStats>>
    ELSE /\ votes' = insert(votes, newVote(collaborationId, agentId, transactionHash))
         /\ collaborations' =
                [collaborations EXCEPT ![collaborationId] = CountVote(@)]
         /\ ret' = "ok"
         /\ UNCHANGED agentStats

recordVote(collaborationId, agentId, transactionHash) ==
    /\ BagCardinality(votes) < MaxVotes
    /\ recordVoteEffect(collaborationId, agentId, transactionHash)

\* A launch that records the token and leaves the status as it is
LaunchTokenKeepsStatus(row, tokenAddress, tokenName, tokenSymbol) ==
    [row EXCEPT !.tokenAddress = tokenAddress,
                !.tokenName = tokenName,
                !.tokenSymbol = tokenSymbol]

LaunchToken(row, tokenAddress, tokenName, tokenSymbol) ==
    [row EXCEPT !.tokenAddress = tokenAddress,
                !.tokenName = tokenName,
                !.tokenSymbol = tokenSymbol,
                !.status = ACTIVE]

updateTokenLaunchEffect(quorumId, tokenAddress, tokenName, tokenSymbol) ==
    IF findByQuorumId(quorumId) = {}
    THEN /\ ret' = "TypeError"
         /\ UNCHANGED collaborations
    ELSE \E c \in findByQuorumId(quorumId) :
            /\ collaborations' = [collaborations EXCEPT
                   ![c] = LaunchToken(@, tokenAddress, tokenName, tokenSymbol)]
            /\ ret' = "ok"

updateTokenLaunch(quorumId, tokenAddress, tokenName, tokenSymbol) ==
    /\ updateTokenLaunchEffect(quorumId, tokenAddress, tokenName, tokenSymbol)
    /\ UNCHANGED <<votes, agentStats>>

updateMarketCapEffect(tokenAddress, marketCap) ==
    IF findByTokenAddress(tokenAddress) = {}
    THEN /\ ret' = "TypeError"
         /\ UNCHANGED collaborations
    ELSE \E c \in findByTokenAddress(tokenAddress) :
            /\ collaborations' = [collaborations EXCEPT ![c].marketCap = marketCap]
            /\ ret' = "ok"

updateMarketCap(tokenAddress, marketCap) ==
    /\ updateMarketCapEffect(tokenAddress, marketCap)
    /\ UNCHANGED <<votes, agentStats>>

Graduate(row) ==
    [row EXCEPT !.graduated = TRUE,
                !.graduatedAt = <<now'>>,
                !.status = COMPLETED]

\* findByAgentId: the stored collaborations the agent takes part in
findByAgentId(agentId) == {c \in CollabIds : agentId \in collaborations[c].agents}

\* updateAgentSuccessRate: the statistics written to the agent's product,
\* computed from the rows the query returns.  successRate is
\* (successful / total) * 100, kept as the fraction it is computed from.
updateAgentSuccessRate(agentId) ==
    LET found == findByAgentId(agentId)
        successful == Cardinality({c \in found : collaborations[c].graduated})
        total == Cardinality(found)
    IN  [collaborationCount |-> total,
         successRate |-> IF total > 0 THEN <<successful * 100, total>> ELSE <<0, 1>>]

\* markGraduated sets the fields on the loaded row, runs
\* updateAgentSuccessRate for each agent of the row, and saves the row last.
markGraduatedEffect(tokenAddress) ==
    IF findByTokenAddress(tokenAddress) = {}
    THEN /\ ret' = "TypeError"
         /\ UNCHANGED <<collaborations, agentStats>>
    ELSE \E c \in findByTokenAddress(tokenAddress) :
            /\ agentStats' = [a \in Agents |->
                                 IF a \in collaborations[c].agents
                                 THEN updateAgentSuccessRate(a)
                                 ELSE agentStats[a]]
            /\ collaborations' = [collaborations EXCEPT ![c] = Graduate(@)]
            /\ ret' = "ok"

markGraduated(tokenAddress) ==
    /\ markGraduatedEffect(tokenAddress)
    /\ UNCHANGED votes

\* ------------------------------------------------------------------------
\* OnChainVerificationService
\* ------------------------------------------------------------------------
EventNames ==
    {"QuorumCreated", "QuorumVoted", "TokenLaunched", "TokenGraduated",
     "TradeExecuted", "Transfer"}

\* OnChainEvent {eventName, args, transactionHash}; args holds the fields the
\* event kind carries
OnChainEvents ==
    [eventName : {"QuorumCreated"}, quorumId : ChainQuorumIds,
     transactionHash : TxHashes]
    \cup [eventName : {"QuorumVoted"}, quorumId : ChainQuorumIds, voter : Wallets,
          transactionHash : TxHashes]
    \cup [eventName : {"TokenLaunched"}, quorumId : ChainQuorumIds,
          tokenAddress : TokenAddresses, transactionHash : TxHashes]
    \cup [eventName : {"TokenGraduated", "Transfer"},
          tokenAddress : TokenAddresses, transactionHash : TxHashes]
    \cup [eventName : {"TradeExecuted"}, tokenAddress : TokenAddresses,
          marketCap : MarketCaps, transactionHash : TxHashes]

\* CollaborationService.save(ctx, collaboration), which handleQuorumCreated
\* calls: persists the row
save(c, row) == [collaborations EXCEPT ![c] = row]

\* Resolves a wallet address to the agent profile that holds it
findAgentByWallet(walletAddress) == {a \in Agents : walletOf(a) = walletAddress}

handleQuorumCreated(event) ==
    /\ IF findByQuorumId(toString(event.quorumId)) = {}
       THEN UNCHANGED collaborations
       ELSE \E c \in findByQuorumId(toString(event.quorumId)) :
               collaborations' = save(c, [collaborations[c] EXCEPT !.status = VOTING])
    /\ ret' = "ok"
    /\ UNCHANGED <<votes, agentStats>>

handleQuorumVoted(event) ==
    /\ IF findAgentByWallet(event.voter) = {}
       THEN /\ ret' = "ok"
            /\ UNCHANGED <<collaborations, votes, agentStats>>
       ELSE \E agent \in findAgentByWallet(event.voter) :
               IF findByQuorumId(toString(event.quorumId)) = {}
               THEN /\ ret' = "TypeError"
                    /\ UNCHANGED <<collaborations, votes, agentStats>>
               ELSE \E c \in findByQuorumId(toString(event.quorumId)) :
                       /\ BagCardinality(votes) < MaxVotes
                       /\ recordVoteEffect(c, agent, event.transactionHash)

handleTokenLaunched(event) ==
    /\ updateTokenLaunchEffect(toString(event.quorumId), event.tokenAddress,
                               tokenContractName(event.tokenAddress),
                               tokenContractSymbol(event.tokenAddress))
    /\ UNCHANGED <<votes, agentStats>>

handleTokenGraduated(event) ==
    /\ markGraduatedEffect(event.tokenAddress)
    /\ UNCHANGED votes

\* A switch whose default case throws
processEventsStrict(event) ==
    IF event.eventName = "QuorumCreated" THEN handleQuorumCreated(event)
    ELSE IF event.eventName = "QuorumVoted" THEN handleQuorumVoted(event)
    ELSE IF event.eventName = "TokenLaunched" THEN handleTokenLaunched(event)
    ELSE IF event.eventName = "TokenGraduated" THEN handleTokenGraduated(event)
    ELSE /\ ret' = "TypeError"
         /\ UNCHANGED <<collaborations, votes, agentStats>>

\* One iteration of the loop of processEvents: the switch on eventName.
\* Event kinds without a case fall through and change nothing.
processEvents(event) ==
    IF event.eventName = "QuorumCreated" THEN handleQuorumCreated(event)
    ELSE IF event.eventName = "QuorumVoted" THEN handleQuorumVoted(event)
    ELSE IF event.eventName = "TokenLaunched" THEN handleTokenLaunched(event)
    ELSE IF event.eventName = "TokenGraduated" THEN handleTokenGraduated(event)
    ELSE /\ ret' = "ok"
         /\ UNCHANGED <<collaborations, votes, agentStats>>

\* ------------------------------------------------------------------------
\* BondingCurveToken: constants and accounts
\* ------------------------------------------------------------------------
\* The contract counts in wei, 1 ether = 10^18 wei, and token units with 18
\* decimals.  The model keeps the contract's integer arithmetic and scales
\* the unit down: UNIT stands for 10^18 (the "ether" of the constants and
\* the 1e18 of the price formulas) and INITIAL_PRICE for 0.00001 ether.  As
\* in the contract, the price stays below UNIT up to the graduation threshold.
UNIT == 100
INITIAL_PRICE == 20
PRICE_INCREMENT == 1
GRADUATION_THRESHOLD == 10 * UNIT
PLATFORM_FEE_BPS == 3000
AGENT_FEE_BPS == 1000
LIQUIDITY_BPS == 6000
BPS_DIVISOR == 10000

MaxTx == 4            \* successful calls in one behaviour
MaxDepth == 2         \* calls of the contract open at once (re-entrancy depth)

\* quorumMembers / isQuorumMember: the constructor takes 3 to 5 members
quorumMembers == {"m1", "m2", "m3"}
\* A membership test that lets every caller through
isAnyCaller(a) == TRUE

isQuorumMember(a) == a \in quorumMembers

Trader == "alice"     \* an account that is no quorum member
Pair == "pair"        \* uniswapV2Pair
Callers == quorumMembers \cup {Trader}
Holders == {Trader, Pair}

\* msg.value of a buy, tokenAmount of a sell, value of a plain transfer
EthIns ==
    {0, 1, UNIT \div 3, GRADUATION_THRESHOLD \div 2, GRADUATION_THRESHOLD,
     BPS_DIVISOR}
SellAmounts(holder) ==
    {0, 1, UNIT, balanceOf[holder] \div 2, balanceOf[holder], balanceOf[holder] + 1}
ReceiveValues == {1, UNIT}

\* ------------------------------------------------------------------------
\* BondingCurveToken: view functions and fee split
\* ------------------------------------------------------------------------
getCurrentPrice == INITIAL_PRICE + ((totalSupply \div UNIT) * PRICE_INCREMENT)

\* A purchase return rounded up instead of down
calculatePurchaseReturnRoundedUp(ethAmount) ==
    IF ethAmount = 0 THEN 0
    ELSE (ethAmount * UNIT + getCurrentPrice - 1) \div getCurrentPrice

calculatePurchaseReturn(ethAmount) ==
    IF ethAmount = 0 THEN 0 ELSE (ethAmount * UNIT) \div getCurrentPrice

\* calculateSaleReturn reverts with "Exceeds supply" when this holds
ExceedsSupply(tokenAmount) == tokenAmount > totalSupply

\* The sale return without the cap at the liquidity reserve
calculateSaleReturnUncapped(tokenAmount) ==
    IF tokenAmount = 0 THEN 0 ELSE (tokenAmount * getCurrentPrice) \div UNIT

calculateSaleReturn(tokenAmount) ==
    IF tokenAmount = 0 THEN 0
    ELSE LET ethAmount == (tokenAmount * getCurrentPrice) \div UNIT
         IN  IF ethAmount > liquidityReserve THEN liquidityReserve ELSE ethAmount

platformFeeOf(value) == (value * PLATFORM_FEE_BPS) \div BPS_DIVISOR
agentFeeOf(value) == (value * AGENT_FEE_BPS) \div BPS_DIVISOR
\* The liquidity share computed on its own from LIQUIDITY_BPS, not as the
\* remainder
liquidityAmountFromBps(value) == (value * LIQUIDITY_BPS) \div BPS_DIVISOR

liquidityAmountOf(value) == value - platformFeeOf(value) - agentFeeOf(value)

\* ------------------------------------------------------------------------
\* BondingCurveToken: calls
\* ------------------------------------------------------------------------
\* A transaction that reverts leaves the contract as it was
Revert(reason) ==
    /\ ret' = reason
    /\ UNCHANGED tokenVars

\* The contract's state when a call is entered; a revert brings it back
Snapshot ==
    [totalETHRaised |-> totalETHRaised, liquidityReserve |-> liquidityReserve,
     graduated |-> graduated, balance |-> balance, totalSupply |-> totalSupply,
     balanceOf |-> balanceOf, locked |-> locked, stack |-> stack,
     lastBuy |-> lastBuy, graduations |-> graduations,
     accruedAgentFees |-> accruedAgentFees, received |-> received,
     claimed |-> claimed]

Restore(s) ==
    /\ totalETHRaised' = s.totalETHRaised
    /\ liquidityReserve' = s.liquidityReserve
    /\ graduated' = s.graduated
    /\ balance' = s.balance
    /\ totalSupply' = s.totalSupply
    /\ balanceOf' = s.balanceOf
    /\ locked' = s.locked
    /\ stack' = s.stack
    /\ lastBuy' = s.lastBuy
    /\ graduations' = s.graduations
    /\ accruedAgentFees' = s.accruedAgentFees
    /\ received' = s.received
    /\ claimed' = s.claimed
    /\ claimChain' = <<>>
    /\ UNCHANGED txCount

\* A call of the contract that hands control to `callee` and waits
Frame(fn, sender, value, tokenAmount) ==
    [fn |-> fn, sender |-> sender, value |-> value, tokenAmount |-> tokenAmount,
     snap |-> Snapshot]

\* Room for one more successful call, possibly from inside an open call
CanCall == txCount < MaxTx
CanCallOut == CanCall /\ Len(stack) < MaxDepth

\* buy() up to the platform fee transfer: msg.value is in the balance, the
\* fee leaves with feeRecipients.platform.call, which gets control
buy(sender, value) ==
    IF locked THEN Revert("ReentrancyGuard: reentrant call")
    ELSE IF graduated THEN Revert("Already graduated")
    ELSE IF value = 0 THEN Revert("Must send ETH")
    ELSE IF calculatePurchaseReturn(value) = 0 THEN Revert("Invalid token amount")
    ELSE /\ CanCallOut
         /\ locked' = TRUE
         /\ balance' = balance + value - platformFeeOf(value)
         /\ stack' = <<Frame("buy", sender, value, calculatePurchaseReturn(value))>>
                        \o stack
         /\ txCount' = txCount + 1
         /\ claimChain' = <<>>
         /\ ret' = "pending"
         /\ UNCHANGED <<totalETHRaised, liquidityReserve, graduated, totalSupply,
                        balanceOf, lastBuy, graduations, accruedAgentFees,
                        received, claimed>>

\* A _graduate() that leaves the graduated flag as it is
graduateBodyFlagNotSet(reserve, supply, balances) ==
    /\ graduated' = graduated
    /\ totalSupply' = supply + (supply \div 2)
    /\ balanceOf' = [balances EXCEPT ![Pair] = @ + (supply \div 2)]
    /\ balance' = balance - reserve
    /\ graduations' = graduations + 1

\* _graduate(): sets the flag, mints totalSupply / 2 for the pool and sends
\* them with the whole liquidityReserve to the router (addLiquidityETH).
\* reserve, supply and balances are the values at the time it runs.
graduateBody(reserve, supply, balances) ==
    /\ graduated' = TRUE
    /\ totalSupply' = supply + (supply \div 2)
    /\ balanceOf' = [balances EXCEPT ![Pair] = @ + (supply \div 2)]
    /\ balance' = balance - reserve
    /\ graduations' = graduations + 1

\* A threshold test that misses the exact crossing (> for >=)
thresholdExceeded(raised) == raised > GRADUATION_THRESHOLD

\* buy(): totalETHRaised >= GRADUATION_THRESHOLD, evaluated after the purchase
thresholdReached(raised) == raised >= GRADUATION_THRESHOLD

\* buy() after the platform fee transfer returned
buyReturn ==
    /\ stack # <<>>
    /\ Head(stack).fn = "buy"
    /\ LET f == Head(stack)
           raised == totalETHRaised + f.value
           reserve == liquidityReserve + liquidityAmountOf(f.value)
           supply == totalSupply + f.tokenAmount
           balances == [balanceOf EXCEPT ![f.sender] = @ + f.tokenAmount]
       IN  IF thresholdReached(raised) /\ ~graduated /\ balance < reserve
           THEN \* addLiquidityETH{value: liquidityReserve} cannot be paid
                /\ Restore(f.snap)
                /\ ret' = "addLiquidityETH failed"
           ELSE /\ totalETHRaised' = raised
                /\ liquidityReserve' = reserve
                /\ lastBuy' = <<[ethAmount |-> f.value,
                                 tokenAmount |-> f.tokenAmount,
                                 platformFee |-> platformFeeOf(f.value),
                                 agentFee |-> agentFeeOf(f.value),
                                 liquidityAmount |-> liquidityAmountOf(f.value)]>>
                /\ accruedAgentFees' = accruedAgentFees + agentFeeOf(f.value)
                /\ IF thresholdReached(raised) /\ ~graduated
                   THEN graduateBody(reserve, supply, balances)
                   ELSE /\ totalSupply' = supply
                        /\ balanceOf' = balances
                        /\ UNCHANGED <<graduated, balance, graduations>>
                /\ locked' = FALSE
                /\ stack' = Tail(stack)
                /\ claimChain' = <<>>
                /\ ret' = "ok"
                /\ UNCHANGED <<txCount, received, claimed>>

\* A sell() without require(!graduated)
sellAfterGraduation(sender, tokenAmount) ==
    IF locked THEN Revert("ReentrancyGuard: reentrant call")
    ELSE IF tokenAmount = 0 THEN Revert("Must sell positive amount")
    ELSE IF balanceOf[sender] < tokenAmount THEN Revert("Insufficient balance")
    ELSE IF ExceedsSupply(tokenAmount) THEN Revert("Exceeds supply")
    ELSE IF calculateSaleReturn(tokenAmount) = 0 THEN Revert("Invalid ETH amount")
    ELSE IF liquidityReserve < calculateSaleReturn(tokenAmount)
    THEN Revert("Insufficient liquidity")
    ELSE IF balance < calculateSaleReturn(tokenAmount) THEN Revert("ETH transfer failed")
    ELSE /\ CanCallOut
         /\ locked' = TRUE
         /\ totalSupply' = totalSupply - tokenAmount
         /\ balanceOf' = [balanceOf EXCEPT ![sender] = @ - tokenAmount]
         /\ liquidityReserve' = liquidityReserve - calculateSaleReturn(tokenAmount)
         /\ balance' = balance - calculateSaleReturn(tokenAmount)
         /\ stack' = <<Frame("sell", sender, calculateSaleReturn(tokenAmount),
                             tokenAmount)>> \o stack
         /\ txCount' = txCount + 1
         /\ claimChain' = <<>>
         /\ ret' = "pending"
         /\ UNCHANGED <<totalETHRaised, graduated, lastBuy, graduations,
                        accruedAgentFees, received, claimed>>

\* A sell() that lowers the supply and leaves the seller its tokens
sellWithoutBurn(sender, tokenAmount) ==
    IF locked THEN Revert("ReentrancyGuard: reentrant call")
    ELSE IF graduated THEN Revert("Already graduated - use Uniswap")
    ELSE IF tokenAmount = 0 THEN Revert("Must sell positive amount")
    ELSE IF balanceOf[sender] < tokenAmount THEN Revert("Insufficient balance")
    ELSE IF ExceedsSupply(tokenAmount) THEN Revert("Exceeds supply")
    ELSE IF calculateSaleReturn(tokenAmount) = 0 THEN Revert("Invalid ETH amount")
    ELSE IF liquidityReserve < calculateSaleReturn(tokenAmount)
    THEN Revert("Insufficient liquidity")
    ELSE IF balance < calculateSaleReturn(tokenAmount) THEN Revert("ETH transfer failed")
    ELSE /\ CanCallOut
         /\ locked' = TRUE
         /\ totalSupply' = totalSupply - tokenAmount
         /\ balanceOf' = balanceOf
         /\ liquidityReserve' = liquidityReserve - calculateSaleReturn(tokenAmount)
         /\ balance' = balance - calculateSaleReturn(tokenAmount)
         /\ stack' = <<Frame("sell", sender, calculateSaleReturn(tokenAmount),
                             tokenAmount)>> \o stack
         /\ txCount' = txCount + 1
         /\ claimChain' = <<>>
         /\ ret' = "pending"
         /\ UNCHANGED <<totalETHRaised, graduated, lastBuy, graduations,
                        accruedAgentFees, received, claimed>>

\* sell(tokenAmount) up to the ETH transfer: msg.sender gets control
sell(sender, tokenAmount) ==
    IF locked THEN Revert("ReentrancyGuard: reentrant call")
    ELSE IF graduated THEN Revert("Already graduated - use Uniswap")
    ELSE IF tokenAmount = 0 THEN Revert("Must sell positive amount")
    ELSE IF balanceOf[sender] < tokenAmount THEN Revert("Insufficient balance")
    ELSE IF ExceedsSupply(tokenAmount) THEN Revert("Exceeds supply")
    ELSE IF calculateSaleReturn(tokenAmount) = 0 THEN Revert("Invalid ETH amount")
    ELSE IF liquidityReserve < calculateSaleReturn(tokenAmount)
    THEN Revert("Insufficient liquidity")
    ELSE IF balance < calculateSaleReturn(tokenAmount) THEN Revert("ETH transfer failed")
    ELSE /\ CanCallOut
         /\ locked' = TRUE
         /\ totalSupply' = totalSupply - tokenAmount
         /\ balanceOf' = [balanceOf EXCEPT ![sender] = @ - tokenAmount]
         /\ liquidityReserve' = liquidityReserve - calculateSaleReturn(tokenAmount)
         /\ balance' = balance - calculateSaleReturn(tokenAmount)
         /\ stack' = <<Frame("sell", sender, calculateSaleReturn(tokenAmount),
                             tokenAmount)>> \o stack
         /\ txCount' = txCount + 1
         /\ claimChain' = <<>>
         /\ ret' = "pending"
         /\ UNCHANGED <<totalETHRaised, graduated, lastBuy, graduations,
                        accruedAgentFees, received, claimed>>

\* sell() after the ETH transfer returned
sellReturn ==
    /\ stack # <<>>
    /\ Head(stack).fn = "sell"
    /\ locked' = FALSE
    /\ stack' = Tail(stack)
    /\ ret' = "ok"
    /\ UNCHANGED <<totalETHRaised, liquidityReserve, graduated, balance,
                   totalSupply, balanceOf, txCount, lastBuy, graduations,
                   accruedAgentFees, received, claimed, claimChain>>

\* graduate(): the manual trigger
graduate ==
    IF graduated THEN Revert("Already graduated")
    ELSE IF totalETHRaised < GRADUATION_THRESHOLD THEN Revert("Threshold not reached")
    ELSE IF balance < liquidityReserve THEN Revert("addLiquidityETH failed")
    ELSE /\ CanCall
         /\ graduateBody(liquidityReserve, totalSupply, balanceOf)
         /\ txCount' = txCount + 1
         /\ claimChain' = <<>>
         /\ ret' = "ok"
         /\ UNCHANGED <<totalETHRaised, liquidityReserve, locked, stack, lastBuy,
                        accruedAgentFees, received, claimed>>

\* address(this).balance - liquidityReserve, and each member's share of it
totalAgentFees == balance - liquidityReserve
feePerAgent == totalAgentFees \div Cardinality(quorumMembers)

\* A transfer that takes the fee out of the balance only after the receiver
\* has run
balanceBeforeTransfer(fee) == balance

\* The balance once msg.sender.call{value: fee} has taken the fee out; the
\* receiver runs after that
balanceAfterTransfer(fee) == balance - fee

\* claimAgentFees() up to the fee transfer: msg.sender gets control
claimAgentFees(sender) ==
    IF ~isQuorumMember(sender) THEN Revert("Not a quorum member")
    ELSE IF balance < liquidityReserve THEN Revert("Panic: arithmetic underflow")
    ELSE IF totalAgentFees = 0 THEN Revert("No fees to claim")
    ELSE IF feePerAgent = 0 THEN Revert("Insufficient fees")
    ELSE /\ CanCallOut
         /\ balance' = balanceAfterTransfer(feePerAgent)
         /\ claimed' = [claimed EXCEPT ![sender] = @ + feePerAgent]
         /\ claimChain' = Append(claimChain,
                                 [basis |-> totalAgentFees, paid |-> feePerAgent])
         /\ stack' = <<Frame("claimAgentFees", sender, feePerAgent, 0)>> \o stack
         /\ txCount' = txCount + 1
         /\ ret' = "pending"
         /\ UNCHANGED <<totalETHRaised, liquidityReserve, graduated, totalSupply,
                        balanceOf, locked, lastBuy, graduations, accruedAgentFees,
                        received>>

\* claimAgentFees() after the fee transfer returned
claimAgentFeesReturn ==
    /\ stack # <<>>
    /\ Head(stack).fn = "claimAgentFees"
    /\ stack' = Tail(stack)
    /\ ret' = "ok"
    /\ UNCHANGED <<totalETHRaised, liquidityReserve, graduated, balance,
                   totalSupply, balanceOf, locked, txCount, lastBuy, graduations,
                   accruedAgentFees, received, claimed, claimChain>>

\* receive(): a plain ETH transfer to the contract
receive(value) ==
    /\ CanCall
    /\ balance' = balance + value
    /\ received' = received + value
    /\ txCount' = txCount + 1
    /\ claimChain' = <<>>
    /\ ret' = "ok"
    /\ UNCHANGED <<totalETHRaised, liquidityReserve, graduated, totalSupply,
                   balanceOf, locked, stack, lastBuy, graduations,
                   accruedAgentFees, claimed>>

\* The contract after its constructor
InitToken ==
    /\ totalETHRaised = 0
    /\ liquidityReserve = 0
    /\ graduated = FALSE
    /\ balance = 0
    /\ totalSupply = 0
    /\ balanceOf = [h \in Holders |-> 0]
    /\ locked = FALSE
    /\ stack = <<>>
    /\ txCount = 0
    /\ lastBuy = <<>>
    /\ graduations = 0
    /\ accruedAgentFees = 0
    /\ received = 0
    /\ claimed = [m \in quorumMembers |-> 0]
    /\ claimChain = <<>>

\* ------------------------------------------------------------------------
\* Specification of the ledger
\* ------------------------------------------------------------------------
\* No batch is being replayed
NoReplay ==
    [mode |-> "idle", batch |-> {}, todo |-> {}, pass |-> 0, start |-> <<>>,
     first |-> <<>>]

InitLedger ==
    /\ collaborations = <<>>
    /\ votes = EmptyBag
    /\ now = 0
    /\ replay = NoReplay
    /\ requests = <<>>
    /\ agentStats = [a \in Agents |-> NoStats]
    /\ ret = "ok"

Init == InitLedger /\ InitToken

\* A call arrives, later than the call before it
Call ==
    /\ now < MaxTime
    /\ now' = now + 1
    /\ UNCHANGED <<replay, requests, tokenVars>>

CreateCollaborationCall ==
    /\ Call
    /\ \E q \in QuorumIds, ids \in AgentIdLists : createCollaboration(q, ids)

RecordVoteCall ==
    /\ Call
    /\ \E c \in 1..MaxCollabs, a \in Agents, h \in TxHashes : recordVote(c, a, h)

UpdateTokenLaunchCall ==
    /\ Call
    /\ \E q \in QuorumIds, t \in TokenAddresses :
        updateTokenLaunch(q, t, tokenContractName(t), tokenContractSymbol(t))

UpdateMarketCapCall ==
    /\ Call
    /\ \E t \in TokenAddresses, m \in MarketCaps : updateMarketCap(t, m)

MarkGraduatedCall ==
    /\ Call
    /\ \E t \in TokenAddresses : markGraduated(t)

ProcessEventsCall ==
    /\ Call
    /\ \E event \in OnChainEvents : processEvents(event)

NextLedger ==
    \/ CreateCollaborationCall
    \/ RecordVoteCall
    \/ UpdateTokenLaunchCall
    \/ UpdateMarketCapCall
    \/ MarkGraduatedCall
    \/ ProcessEventsCall

SpecLedger == Init /\ [][NextLedger]_vars

\* ------------------------------------------------------------------------
\* Specification of the reconciler replaying a batch
\* ------------------------------------------------------------------------
\* The feed is at-least-once and possibly reordered: the worker posts a batch
\* of events of one collaboration to the sync endpoint, and posts the same
\* events again later, either to a ledger as it was before the batch
\* (mode "reorder": the log replayed in another order) or to the ledger the
\* first delivery left (mode "again": a crash-and-resume redelivery).  In
\* these two modes a token's TokenLaunched comes before its TokenGraduated
\* and TradeExecuted; in mode "asDelivered" the feed delivers in any order.

\* The events that concern collaboration c: those that carry its quorum id,
\* and the token events
EventsOf(c) ==
    {e \in OnChainEvents :
        IF e.eventName \in {"QuorumCreated", "QuorumVoted", "TokenLaunched"}
        THEN toString(e.quorumId) = collaborations[c].quorumId
        ELSE TRUE}

\* A token's TokenGraduated / TradeExecuted comes with its TokenLaunched
NeedsLaunch(e) == e.eventName \in {"TokenGraduated", "TradeExecuted"}
LaunchOf(e, events) ==
    {l \in events : l.eventName = "TokenLaunched" /\ l.tokenAddress = e.tokenAddress}

RECURSIVE SubsetsUpTo(_, _)
SubsetsUpTo(S, n) ==
    IF n = 0 THEN {{}}
    ELSE LET P == SubsetsUpTo(S, n - 1) IN P \cup {b \cup {e} : b \in P, e \in S}

\* Any events the feed may post together
DeliveriesOf(c) ==
    {b \in SubsetsUpTo(EventsOf(c), MaxBatch) : Cardinality(b) \in 1..MaxBatch}

\* The deliveries that hold the TokenLaunched of every token they trade or
\* graduate
BatchesOf(c) ==
    {b \in DeliveriesOf(c) : \A e \in b : NeedsLaunch(e) => LaunchOf(e, b) # {}}

\* What a reader sees of the collaborations once a batch is through
FinalState ==
    [c \in CollabIds |->
        [status |-> collaborations[c].status,
         votesReceived |-> collaborations[c].votesReceived,
         tokenAddress |-> collaborations[c].tokenAddress,
         tokenName |-> collaborations[c].tokenName,
         tokenSymbol |-> collaborations[c].tokenSymbol,
         graduated |-> collaborations[c].graduated]]

\* The frontend creates the collaboration before its events arrive
CreateBeforeReplay ==
    /\ replay.mode = "idle"
    /\ CreateCollaborationCall

\* syncEvents receives body.events
StartReplay ==
    /\ replay.mode = "idle"
    /\ Len(collaborations) = 1
    /\ \E m \in {"reorder", "again", "asDelivered"} :
        \E b \in IF m = "asDelivered" THEN DeliveriesOf(1) ELSE BatchesOf(1) :
          replay' = [mode |-> m, batch |-> b, todo |-> b, pass |-> 1,
                     start |-> <<collaborations, votes, agentStats>>,
                     first |-> <<>>]
    /\ UNCHANGED <<collaborations, votes, now, requests, agentStats, ret, tokenVars>>

\* One iteration of the for loop of processEvents, for the next event of the
\* delivery; an exception thrown by a handler ends the loop.
ReplayEvent ==
    /\ replay.mode # "idle"
    /\ \E event \in replay.todo :
          /\ (replay.mode # "asDelivered" /\ NeedsLaunch(event))
                => LaunchOf(event, replay.todo) = {}
          /\ now' = now + 1
          /\ processEvents(event)
          /\ replay' = [replay EXCEPT
                           !.todo = IF ret' = "TypeError" THEN {} ELSE @ \ {event}]
    /\ UNCHANGED <<requests, tokenVars>>

\* The batch is through; the worker posts the same events again
Redeliver ==
    /\ replay.mode \in {"reorder", "again"}
    /\ replay.pass = 1
    /\ replay.todo = {}
    /\ replay' = [replay EXCEPT !.todo = replay.batch, !.pass = 2,
                                !.first = <<FinalState, votes>>]
    /\ IF replay.mode = "reorder"
       THEN /\ collaborations' = replay.start[1]
            /\ votes' = replay.start[2]
            /\ agentStats' = replay.start[3]
       ELSE UNCHANGED <<collaborations, votes, agentStats>>
    /\ UNCHANGED <<now, requests, ret, tokenVars>>

NextReplay ==
    \/ CreateBeforeReplay
    \/ StartReplay
    \/ ReplayEvent
    \/ Redeliver

SpecReplay == Init /\ [][NextReplay]_vars

\* The for loop of processEvents runs on until the batch is through or a
\* handler throws
SpecReplayFair == SpecReplay /\ WF_vars(ReplayEvent)

\* ------------------------------------------------------------------------
\* Specification of recordVote calls running concurrently
\* ------------------------------------------------------------------------
\* recordVote is an async function: each await hands control to the other
\* requests of the server.  A request reads the collaboration (findOne),
\* saves the Vote, and writes the collaboration back with the count it
\* computed from the row it read.  No lock is taken and no version is
\* compared.
MaxRequests == 2      \* recordVote calls in flight at once

RequestIds == 1..Len(requests)

CreateBeforeRequests ==
    /\ requests = <<>>
    /\ CreateCollaborationCall

\* A recordVote call arrives
RecordVoteRequest ==
    /\ Len(requests) < MaxRequests
    /\ Len(collaborations) > 0
    /\ \E c \in 1..MaxCollabs, a \in Agents, h \in TxHashes :
          requests' = Append(requests,
                             [pc |-> "findOne", collaborationId |-> c, agentId |-> a,
                              transactionHash |-> h, collaboration |-> <<>>])
    /\ UNCHANGED <<collaborations, votes, now, replay, agentStats, ret, tokenVars>>

\* const collaboration = await this.findOne(ctx, collaborationId)
RecordVoteFindOne ==
    /\ \E r \in RequestIds :
          /\ requests[r].pc = "findOne"
          /\ requests' = [requests EXCEPT
                 ![r].pc = "saveVote",
                 ![r].collaboration =
                     IF findOne(requests[r].collaborationId) = {} THEN <<>>
                     ELSE <<collaborations[requests[r].collaborationId]>>]
    /\ UNCHANGED <<collaborations, votes, now, replay, agentStats, ret, tokenVars>>

\* await getRepository(Vote).save(vote); without a collaboration the next
\* statement throws
RecordVoteSaveVote ==
    /\ \E r \in RequestIds :
          LET q == requests[r]
          IN  /\ q.pc = "saveVote"
              /\ IF q.collaboration = <<>>
                 THEN /\ votes' = insert(votes, newVote(0, q.agentId, q.transactionHash))
                      /\ requests' = [requests EXCEPT ![r].pc = "done"]
                      /\ ret' = "TypeError"
                 ELSE /\ votes' = insert(votes, newVote(q.collaborationId, q.agentId,
                                                        q.transactionHash))
                      /\ requests' = [requests EXCEPT ![r].pc = "saveCollaboration"]
                      /\ UNCHANGED ret
    /\ UNCHANGED <<collaborations, now, replay, agentStats, tokenVars>>

\* collaboration.votesReceived += 1; the status; await
\* getRepository(Collaboration).save(collaboration): the columns recordVote
\* assigned are written with the values computed from the row it read
RecordVoteSaveCollaboration ==
    /\ \E r \in RequestIds :
          LET q == requests[r]
              row == CountVote(q.collaboration[1])
          IN  /\ q.pc = "saveCollaboration"
              /\ collaborations' =
                     [collaborations EXCEPT
                         ![q.collaborationId].votesReceived = row.votesReceived,
                         ![q.collaborationId].status = row.status]
              /\ requests' = [requests EXCEPT ![r].pc = "done"]
              /\ ret' = "ok"
    /\ UNCHANGED <<votes, now, replay, agentStats, tokenVars>>

NextConcurrent ==
    \/ CreateBeforeRequests
    \/ RecordVoteRequest
    \/ RecordVoteFindOne
    \/ RecordVoteSaveVote
    \/ RecordVoteSaveCollaboration

SpecConcurrent == Init /\ [][NextConcurrent]_vars

\* ------------------------------------------------------------------------
\* Specification of the token contract
\* ------------------------------------------------------------------------
\* Any account may call at any time: as a transaction of its own, or from
\* inside the external call an open call of the contract is waiting for.
BuyCall ==
    /\ \E v \in EthIns : buy(Trader, v)
    /\ UNCHANGED ledgerVars

BuyReturn ==
    /\ buyReturn
    /\ UNCHANGED ledgerVars

SellCall ==
    /\ \E t \in SellAmounts(Trader) : sell(Trader, t)
    /\ UNCHANGED ledgerVars

SellReturn ==
    /\ sellReturn
    /\ UNCHANGED ledgerVars

GraduateCall ==
    /\ graduate
    /\ UNCHANGED ledgerVars

ClaimAgentFeesCall ==
    /\ \E a \in Callers : claimAgentFees(a)
    /\ UNCHANGED ledgerVars

ClaimAgentFeesReturn ==
    /\ claimAgentFeesReturn
    /\ UNCHANGED ledgerVars

ReceiveCall ==
    /\ \E v \in ReceiveValues : receive(v)
    /\ UNCHANGED ledgerVars

NextToken ==
    \/ BuyCall
    \/ BuyReturn
    \/ SellCall
    \/ SellReturn
    \/ GraduateCall
    \/ ClaimAgentFeesCall
    \/ ClaimAgentFeesReturn
    \/ ReceiveCall

SpecCurve == Init /\ [][NextToken]_vars

\* ------------------------------------------------------------------------
\* Properties of the ledger
\* ------------------------------------------------------------------------
\* Vote rows recorded for collaboration c, and the agents that cast them
VotesOf(c) == {v \in BagToSet(votes) : v.collaboration = c}
VotersOf(c) == {v.agent : v \in VotesOf(c)}

\* A Vote already exists for the (collaboration, agent) pair or for the hash
VoteExists(c, a, h) ==
    \E v \in BagToSet(votes) :
        \/ v.collaboration = c /\ v.agent = a
        \/ v.transactionHash = h

\* No two Vote rows share a (collaboration, agent) pair or a transaction hash
NoDuplicateVotes ==
    /\ \A v \in BagToSet(votes) : CopiesIn(v, votes) = 1
    /\ \A v, w \in BagToSet(votes) :
          v # w => /\ v.transactionHash # w.transactionHash
                   /\ ~(v.collaboration = w.collaboration /\ v.agent = w.agent)

\* C1: for every Collaboration, votesReceived equals the number of distinct
\* agents that have a recorded Vote for it, in every reachable state.
C1_VotesReceivedCountsDistinctVoters ==
    \A c \in CollabIds :
        collaborations[c].votesReceived = Cardinality(VotersOf(c))

\* C2: recordVote for a (collaboration, agent) pair or a transaction hash that
\* already has a Vote creates no Vote and leaves every Collaboration as it
\* was; hence no two Votes ever share a pair or a hash.
C2_DuplicateVoteIsSilentNoOp ==
    /\ []NoDuplicateVotes
    /\ [][\A c \in 1..MaxCollabs, a \in Agents, h \in TxHashes :
            (VoteExists(c, a, h) /\ Call /\ recordVote(c, a, h))
                => UNCHANGED <<collaborations, votes>>]_vars

\* C3: a Collaboration is in status voting only if every one of its
\* participants has a recorded Vote.
C3_UnanimityGate ==
    \A c \in CollabIds :
        collaborations[c].status = VOTING
            => collaborations[c].agents \subseteq VotersOf(c)

\* The edges of the lifecycle: pending -> voting -> active -> completed, and
\* any non-terminal status -> failed
StatusEdges ==
    {<<PENDING, VOTING>>, <<VOTING, ACTIVE>>, <<ACTIVE, COMPLETED>>,
     <<PENDING, FAILED>>, <<VOTING, FAILED>>, <<ACTIVE, FAILED>>}

\* C4: in every step, a Collaboration's status stays the same or moves along
\* one edge of the lifecycle; it never moves backwards or skips a stage.
C4_StatusMovesAlongEdges ==
    [][\A c \in CollabIds :
          \/ collaborations'[c].status = collaborations[c].status
          \/ <<collaborations[c].status, collaborations'[c].status>> \in StatusEdges]_vars

TokenIdentity(row) == <<row.tokenAddress, row.tokenName, row.tokenSymbol>>

\* C5: once a Collaboration's token identity has been set, no later step
\* changes tokenAddress, tokenName or tokenSymbol.
C5_TokenIdentityWriteOnce ==
    [][\A c \in CollabIds :
          collaborations[c].tokenAddress # NULL
              => TokenIdentity(collaborations'[c]) = TokenIdentity(collaborations[c])]_vars

\* C11: a batch of events of one collaboration, replayed from the same
\* ledger in any two orders that have TokenLaunched before TokenGraduated,
\* ends in the same Collaboration state (status, votesReceived, token
\* identity, graduated).
C11_SameStateInAnyOrder ==
    (replay.mode = "reorder" /\ replay.pass = 2 /\ replay.todo = {})
        => FinalState = replay.first[1]

\* C12: a batch processed a second time leaves every Collaboration and Vote
\* as the first processing left it.
C12_ReplayIsNoOp ==
    (replay.mode = "again" /\ replay.pass = 2)
        => /\ FinalState = replay.first[1]
           /\ votes = replay.first[2]

\* A step in which markGraduated(t) runs, called directly or for a
\* TokenGraduated event
MarkGraduatedStep(t) ==
    \/ Call /\ markGraduated(t)
    \/ Call /\ \E h \in TxHashes :
          processEvents([eventName |-> "TokenGraduated", tokenAddress |-> t,
                         transactionHash |-> h])

\* C13: the first markGraduated for a token sets graduated, status completed
\* and graduatedAt; a later markGraduated for the already-completed
\* collaboration leaves graduatedAt and every other field as they were.
C13_GraduationIsIdempotent ==
    [][\A t \in TokenAddresses : MarkGraduatedStep(t) =>
          \A c \in CollabIds :
              /\ collaborations[c].status = COMPLETED
                    => collaborations'[c] = collaborations[c]
              /\ collaborations'[c] # collaborations[c]
                    => /\ collaborations'[c].graduated
                       /\ collaborations'[c].status = COMPLETED
                       /\ collaborations'[c].graduatedAt = <<now'>>]_vars

\* C14: a Collaboration whose status is completed or failed is never changed
\* again, in any field.
C14_TerminalStatusIsFinal ==
    [][\A c \in CollabIds :
          collaborations[c].status \in {COMPLETED, FAILED}
              => collaborations'[c] = collaborations[c]]_vars

\* C15: recordVote with an id that names no Collaboration fails with
\* UnknownCollaboration, with an agent outside the Collaboration's
\* participants it fails with UnknownParticipant; either way no Vote is
\* created and no Collaboration changes.
C15_UnknownIdsAreRejected ==
    [][\A c \in 1..MaxCollabs, a \in Agents, h \in TxHashes :
          (Call /\ recordVote(c, a, h)) =>
              /\ findOne(c) = {}
                    => ret' = "UnknownCollaboration"
                       /\ UNCHANGED <<collaborations, votes>>
              /\ (findOne(c) # {} /\ a \notin collaborations[c].agents)
                    => ret' = "UnknownParticipant"
                       /\ UNCHANGED <<collaborations, votes>>]_vars

\* The Vote rows of c come from its participants, at most one per
\* participant, with transaction hashes of their own
AtMostOneVoteEach(c) ==
    /\ \A v \in VotesOf(c) :
          CopiesIn(v, votes) = 1 /\ v.agent \in collaborations[c].agents
    /\ \A v, w \in VotesOf(c) :
          v # w => v.agent # w.agent /\ v.transactionHash # w.transactionHash

\* ... and every participant has voted
OneVoteEach(c) ==
    /\ AtMostOneVoteEach(c)
    /\ VotersOf(c) = collaborations[c].agents

\* C16: a Collaboration that has not launched and whose participants have
\* each recorded exactly one vote has votesReceived = requiredVotes and status
\* voting; a vote moves it from pending to voting only when it is the last
\* missing one.
C16_VotingAfterAllVotes ==
    /\ [](\A c \in CollabIds :
             (OneVoteEach(c) /\ collaborations[c].tokenAddress = NULL)
                 => /\ collaborations[c].votesReceived = collaborations[c].requiredVotes
                    /\ collaborations[c].status = VOTING)
    /\ [][\A c \in CollabIds :
             (/\ votes' # votes
              /\ collaborations[c].status = PENDING
              /\ collaborations'[c].status = VOTING
              /\ AtMostOneVoteEach(c)')
                 => VotersOf(c)' = collaborations[c].agents]_vars

\* C16 witness: the two participants of a collaboration have voted, with
\* hashes 0x123 and 0x456, and it is in status voting with 2 of 2 votes
C16_Witness ==
    \E c \in CollabIds :
        /\ Cardinality(collaborations[c].agents) = 2
        /\ OneVoteEach(c)
        /\ {v.transactionHash : v \in VotesOf(c)} = {"0x123", "0x456"}
        /\ collaborations[c].tokenAddress = NULL
        /\ collaborations[c].status = VOTING
        /\ collaborations[c].votesReceived = 2
        /\ ret = "ok"

\* C17: the Collaboration that createCollaboration stores is pending, has
\* votesReceived = 0, requiredVotes = the number of agents given, no token
\* identity and graduated = false.
C17_CreatedPending ==
    [][Len(collaborations') # Len(collaborations) =>
          LET row == collaborations'[Len(collaborations')]
          IN  /\ Len(collaborations') = Len(collaborations) + 1
              /\ row.quorumId \in QuorumIds
              /\ row.agents \in AgentIdLists
              /\ row.status = PENDING
              /\ row.votesReceived = 0
              /\ row.requiredVotes = Cardinality(row.agents)
              /\ TokenIdentity(row) = <<NULL, NULL, NULL>>
              /\ row.graduated = FALSE
              /\ Call /\ createCollaboration(row.quorumId, row.agents)]_vars

\* C17 witness: a collaboration of three agents has just been created
C17_Witness ==
    /\ collaborations # <<>>
    /\ LET row == collaborations[Len(collaborations)]
       IN  /\ Cardinality(row.agents) = 3
           /\ row.requiredVotes = 3
           /\ row.votesReceived = 0
           /\ row.status = PENDING
    /\ votes = EmptyBag
    /\ ret = "ok"

\* C18: updateTokenLaunch for the quorum id of a Collaboration that has no
\* token yet leaves that Collaboration with the given token address, name
\* and symbol and in status active.
C18_LaunchSetsTokenAndActive ==
    [][\A q \in QuorumIds :
          (/\ votes' = votes
           /\ collaborations' # collaborations
           /\ Len(collaborations') = Len(collaborations)
           /\ findByQuorumId(q) # {}
           /\ \A c \in findByQuorumId(q) : collaborations[c].tokenAddress = NULL)
              => \A t \in TokenAddresses :
                    updateTokenLaunch(q, t, tokenContractName(t), tokenContractSymbol(t))
                        => /\ ret' = "ok"
                           /\ \E c \in findByQuorumId(q) :
                                 /\ TokenIdentity(collaborations'[c])
                                       = <<t, tokenContractName(t),
                                           tokenContractSymbol(t)>>
                                 /\ collaborations'[c].status = ACTIVE]_vars

\* C18 witness: a collaboration of two was created, one vote recorded, and its
\* token launched
C18_Witness ==
    \E c \in CollabIds :
        /\ collaborations[c].tokenAddress = "0xT1"
        /\ collaborations[c].status = ACTIVE
        /\ collaborations[c].votesReceived = 1
        /\ Cardinality(collaborations[c].agents) = 2
        /\ ret = "ok"

\* ------------------------------------------------------------------------
\* Properties of the token contract
\* ------------------------------------------------------------------------
RECURSIVE SumOver(_, _)
SumOver(f, S) ==
    IF S = {} THEN 0
    ELSE LET x == CHOOSE y \in S : TRUE IN f[x] + SumOver(f, S \ {x})

\* ETH paid out by claimAgentFees so far, to all members together
ClaimedTotal == SumOver(claimed, quorumMembers)

GraduationsDue == IF totalETHRaised >= GRADUATION_THRESHOLD THEN 1 ELSE 0

\* C7: graduation happens exactly once: the body of _graduate has run once
\* when totalETHRaised has reached the threshold and not at all before, the
\* graduated flag is set by that run, and neither is ever undone or repeated.
C7_GraduatesExactlyOnce ==
    /\ [](graduations = GraduationsDue /\ graduated = (graduations = 1))
    /\ [][graduations' >= graduations /\ (graduated => graduated')]_vars

\* C7 witness: the token has graduated and a later buy or graduate call was
\* turned away
C7_Witness ==
    /\ graduated
    /\ graduations = 1
    /\ ret = "Already graduated"

\* C8: the sale return of every amount that can be sold is at most the
\* liquidity reserve (the reserve itself when the price formula gives more),
\* no sell fails for lack of liquidity, and the reserve is never negative.
C8_SaleReturnWithinReserve ==
    /\ liquidityReserve >= 0
    /\ ret # "Insufficient liquidity"
    /\ \A t \in SellAmounts(Trader) \cup {totalSupply} :
          ~ExceedsSupply(t) =>
              /\ calculateSaleReturn(t) <= liquidityReserve
              /\ (t * getCurrentPrice) \div UNIT > liquidityReserve
                    => calculateSaleReturn(t) = liquidityReserve

\* C8 witness: a sell was paid the whole reserve, less than the price formula
\* gave for its tokens
C8_Witness ==
    /\ stack # <<>>
    /\ Head(stack).fn = "sell"
    /\ Head(stack).value = Head(stack).snap.liquidityReserve
    /\ liquidityReserve = 0
    /\ (Head(stack).tokenAmount
          * (INITIAL_PRICE + (Head(stack).snap.totalSupply \div UNIT) * PRICE_INCREMENT))
         \div UNIT > Head(stack).value

\* C9: between transactions, the total paid out by claimAgentFees is at most
\* the agent fees accrued by the completed buys.
C9_ClaimedWithinAccruedFees ==
    stack = <<>> => ClaimedTotal <= accruedAgentFees

RECURSIVE PaidIn(_)
PaidIn(chain) == IF chain = <<>> THEN 0 ELSE Head(chain).paid + PaidIn(Tail(chain))

\* C10: of the claims made one after another or one inside another, no two
\* compute their share from the same unclaimed balance: each claim pays
\* floor(basis / members), the next claim's basis is what the one before
\* left, and together they pay at most the balance the first one found.
C10_ClaimsNeverShareABalance ==
    /\ \A i \in 1..Len(claimChain) :
          /\ claimChain[i].paid = claimChain[i].basis \div Cardinality(quorumMembers)
          /\ i > 1 => claimChain[i].basis
                         = claimChain[i - 1].basis - claimChain[i - 1].paid
    /\ claimChain # <<>> => PaidIn(claimChain) <= claimChain[1].basis

\* C10 witness: a claim re-entered from the fee transfer of another claim,
\* the first one having found an unclaimed balance of 100
C10_Witness ==
    /\ Len(stack) = 2
    /\ stack[1].fn = "claimAgentFees"
    /\ stack[2].fn = "claimAgentFees"
    /\ Len(claimChain) = 2
    /\ claimChain[1].basis = UNIT
    /\ claimChain[2].basis = UNIT - UNIT \div Cardinality(quorumMembers)

\* C19: once graduated is true it stays true, no step changes totalSupply,
\* liquidityReserve, totalETHRaised or a token balance any more, and every
\* buy and sell call is rejected.
C19_CurveClosedAfterGraduation ==
    [][graduated =>
          /\ graduated'
          /\ UNCHANGED <<totalSupply, liquidityReserve, totalETHRaised, balanceOf>>
          /\ \A v \in EthIns :
                buy(Trader, v)
                    => ret' \in {"Already graduated", "ReentrancyGuard: reentrant call"}
          /\ \A t \in SellAmounts(Trader) :
                sell(Trader, t)
                    => ret' \in {"Already graduated - use Uniswap",
                                 "ReentrancyGuard: reentrant call"}]_vars

\* C19 witness: a sell was turned away after graduation, the seller still
\* holding tokens
C19_Witness ==
    /\ graduated
    /\ balanceOf[Trader] > 0
    /\ ret = "Already graduated - use Uniswap"

\* C20: between transactions, graduated is true exactly when totalETHRaised
\* has reached GRADUATION_THRESHOLD; hence a call of graduate() only ever
\* reverts.
C20_GraduatedIffThresholdReached ==
    /\ [](stack = <<>> => (graduated <=> totalETHRaised >= GRADUATION_THRESHOLD))
    /\ [][graduate => ret' \in {"Already graduated", "Threshold not reached"}]_vars

\* C20 witness: two buys of half the threshold; the second one reached it
\* exactly and graduated the token
C20_Witness ==
    /\ stack = <<>>
    /\ graduated
    /\ totalETHRaised = GRADUATION_THRESHOLD
    /\ lastBuy # <<>>
    /\ lastBuy[1].ethAmount = GRADUATION_THRESHOLD \div 2

\* The price the curve formula gives for a supply
CurvePrice(supply) == INITIAL_PRICE + (supply \div UNIT) * PRICE_INCREMENT

C22_OnlyMembersClaim ==
    [][\A a \in Callers \ quorumMembers :
          claimAgentFees(a)
              => /\ ret' = "Not a quorum member"
                 /\ UNCHANGED tokenVars]_vars

\* C22 witness: a non-member's claim was turned away while the contract held
\* claimable fees
C22_Witness ==
    /\ ret = "Not a quorum member"
    /\ balance - liquidityReserve >= Cardinality(quorumMembers)

\* C23: a member's claim fails with "No fees to claim" exactly when the
\* unclaimed balance is zero; with any non-zero unclaimed balance, also one
\* smaller than the number of members, it succeeds and pays
\* floor(unclaimed / members).
C23_ClaimPaysFloorShare ==
    [][\A m \in quorumMembers :
          (stack = <<>> /\ txCount < MaxTx /\ balance >= liquidityReserve
           /\ claimAgentFees(m))
              => IF balance - liquidityReserve = 0
                 THEN ret' = "No fees to claim"
                 ELSE /\ ret' = "pending"
                      /\ claimed'[m] - claimed[m]
                           = (balance - liquidityReserve) \div Cardinality(quorumMembers)]_vars

\* C24: after graduation a member can still claim: when the graduated token
\* holds at least one wei per member, claimAgentFees succeeds and pays.
C24_ClaimsAfterGraduation ==
    [][\A m \in quorumMembers :
          (stack = <<>> /\ txCount < MaxTx
           /\ graduated /\ balance >= Cardinality(quorumMembers)
           /\ claimAgentFees(m))
              => /\ ret' = "pending"
                 /\ claimed'[m] > claimed[m]]_vars

\* ------------------------------------------------------------------------
\* Event delivery
\* ------------------------------------------------------------------------

\* The batch holds only QuorumVoted events of collaboration 1, each from a
\* different participant of it
VotesOfDistinctParticipants(b) ==
    /\ \A e \in b :
          /\ e.eventName = "QuorumVoted"
          /\ findAgentByWallet(e.voter) # {}
          /\ findAgentByWallet(e.voter) \subseteq replay.start[1][1].agents
    /\ \A e1, e2 \in b : e1 # e2 => e1.voter # e2.voter

\* C25: QuorumVoted events of one collaboration, each from a different
\* participant, commute: delivered in any two orders from the same ledger
\* they leave the same Vote rows, the same votesReceived and the same status.
C25_VotesCommute ==
    (/\ replay.mode = "reorder"
     /\ replay.pass = 2
     /\ replay.todo = {}
     /\ VotesOfDistinctParticipants(replay.batch))
        => /\ FinalState = replay.first[1]
           /\ votes = replay.first[2]

C25_Witness ==
    /\ replay.mode = "reorder"
    /\ replay.pass = 2
    /\ replay.todo = {}
    /\ VotesOfDistinctParticipants(replay.batch)
    /\ Cardinality(replay.batch) = 2
    /\ collaborations[1].votesReceived = 2
    /\ BagCardinality(votes) = 2

\* The delivered batch is the TokenLaunched event of token t for
\* collaboration 1 and the TokenGraduated event of t, in either order
LaunchAndGraduation(t) ==
    /\ replay.mode = "asDelivered"
    /\ Cardinality(replay.batch) = 2
    /\ \E l, g \in replay.batch :
          /\ l.eventName = "TokenLaunched" /\ l.tokenAddress = t
          /\ g.eventName = "TokenGraduated" /\ g.tokenAddress = t

\* C26: a TokenGraduated event delivered before the TokenLaunched event of
\* its token is held back and applied once the launch is applied: whatever
\* the order of delivery, the collaboration ends completed and graduated.
C26_EarlyGraduationIsHeldBack ==
    \A t \in TokenAddresses :
        LaunchAndGraduation(t)
            ~> (/\ Len(collaborations) = 1
                /\ collaborations[1].tokenAddress = t
                /\ collaborations[1].graduated
                /\ collaborations[1].status = COMPLETED)

\* The event kinds the reconciler knows
KnownKinds ==
    {"QuorumCreated", "QuorumVoted", "TokenLaunched", "TradeExecuted", "TokenGraduated"}

\* The events a step of the event loop took off the batch: the one it
\* processed, and the rest of the batch when the loop was left
TakenOff == replay.todo \ replay'.todo

\* C27: an event of an unknown kind changes no Collaboration and no Vote and
\* does not end the loop: it alone leaves the batch, without an exception,
\* and the events behind it are still to be processed.
C27_UnknownKindsAreIgnored ==
    [][(/\ replay.mode # "idle"
        /\ replay'.mode = replay.mode
        /\ replay'.pass = replay.pass
        /\ now' = now + 1
        /\ \A e \in TakenOff : e.eventName \notin KnownKinds)
          => /\ UNCHANGED <<collaborations, votes>>
             /\ ret' = "ok"
             /\ Cardinality(TakenOff) = 1]_vars

C27_Witness ==
    /\ replay.mode # "idle"
    /\ replay.pass = 1
    /\ ret = "ok"
    /\ \E e \in replay.batch \ replay.todo : e.eventName \notin KnownKinds
    /\ \E e \in replay.todo : e.eventName = "QuorumVoted"
    /\ collaborations = replay.start[1]
    /\ votes = replay.start[2]

\* A step of the event loop that processes exactly the event e
Processes(e) ==
    /\ replay.mode # "idle"
    /\ replay'.mode = replay.mode
    /\ replay'.pass = replay.pass
    /\ now' = now + 1
    /\ TakenOff = {e}

\* C28: processing a TradeExecuted event of a launched token sets the
\* collaboration's marketCap to the value the event carries, and the
\* graduated flag of a collaboration is raised only by a step that processes
\* a TradeExecuted event.
C28_TradesDriveMarketCapAndGraduation ==
    [][/\ \A e \in replay.todo :
            (/\ e.eventName = "TradeExecuted"
             /\ findByTokenAddress(e.tokenAddress) # {}
             /\ Processes(e))
               => \A c \in findByTokenAddress(e.tokenAddress) :
                      collaborations'[c].marketCap = e.marketCap
       /\ \A c \in CollabIds :
            (/\ Len(collaborations') = Len(collaborations)
             /\ collaborations'[c].graduated
             /\ ~collaborations[c].graduated)
               => \E e \in replay.todo : e.eventName = "TradeExecuted" /\ Processes(e)]_vars

\* ------------------------------------------------------------------------
\* Shape of the collaborations
\* ------------------------------------------------------------------------

\* Quorum sizes the token contract's constructor accepts
QuorumSizes == 3..5

\* C29: every Collaboration has between 3 and 5 participants, and
\* requiredVotes is their number.
C29_QuorumOfThreeToFive ==
    \A c \in CollabIds :
        /\ Cardinality(collaborations[c].agents) \in QuorumSizes
        /\ collaborations[c].requiredVotes \in QuorumSizes

\* C30: no two Collaborations share a quorumId, so findByQuorumId names at
\* most one, and no step changes the quorumId of a Collaboration.
C30_QuorumIdIsUniqueAndFixed ==
    /\ [](\A c, d \in CollabIds :
            c # d => collaborations[c].quorumId # collaborations[d].quorumId)
    /\ [][\A c \in CollabIds :
            collaborations'[c].quorumId = collaborations[c].quorumId]_vars

\* ------------------------------------------------------------------------
\* Vote counter
\* ------------------------------------------------------------------------

\* C31: votesReceived of a Collaboration never decreases and never exceeds
\* requiredVotes, whatever votes are recorded and whatever its status.
C31_VoteCountIsBounded ==
    /\ [](\A c \in CollabIds :
            collaborations[c].votesReceived <= collaborations[c].requiredVotes)
    /\ [][\A c \in CollabIds :
            collaborations'[c].votesReceived >= collaborations[c].votesReceived]_vars

\* C32: two recordVote calls for two different participants of one
\* collaboration, running concurrently, end with both Votes recorded and
\* votesReceived raised by two, and with status voting when these were the
\* two votes required.
C32_NoLostUpdate ==
    \A r1, r2 \in RequestIds :
        LET c == requests[r1].collaborationId
        IN  (/\ r1 # r2
             /\ requests[r1].pc = "done"
             /\ requests[r2].pc = "done"
             /\ requests[r2].collaborationId = c
             /\ c \in CollabIds
             /\ requests[r1].agentId # requests[r2].agentId
             /\ {requests[r1].agentId, requests[r2].agentId}
                    \subseteq collaborations[c].agents)
               => /\ Cardinality(VotesOf(c)) = 2
                  /\ collaborations[c].votesReceived = 2
                  /\ collaborations[c].requiredVotes = 2
                        => collaborations[c].status = VOTING

\* The delivered batch is a TokenGraduated event of a token no collaboration
\* has and no event of the batch launches, and the QuorumCreated event of
\* collaboration 1
UnknownTokenAndQuorumCreated ==
    /\ replay.mode = "asDelivered"
    /\ replay.pass = 1
    /\ Cardinality(replay.batch) = 2
    /\ \E g, q \in replay.batch :
          /\ g.eventName = "TokenGraduated"
          /\ findByTokenAddress(g.tokenAddress) = {}
          /\ q.eventName = "QuorumCreated"

\* C33: an event that cannot be applied because its token is not known does
\* not stop the batch: the QuorumCreated event of another collaboration in
\* the same batch is still applied and moves that collaboration to voting.
C33_UnrelatedEventsStillApplied ==
    UnknownTokenAndQuorumCreated
        ~> (Len(collaborations) = 1 /\ collaborations[1].status = VOTING)

\* ------------------------------------------------------------------------
\* Agent statistics
\* ------------------------------------------------------------------------

\* The collaborations agent a takes part in after the step, and the
\* graduated ones among them
TakesPartIn(a) == {d \in CollabIds : a \in collaborations'[d].agents}
GraduatedOf(a) == {d \in TakesPartIn(a) : collaborations'[d].graduated}

\* C34: when markGraduated has completed for a collaboration, each of its
\* participants has collaborationCount equal to the number of collaborations
\* it takes part in, and a success rate computed from the number of those
\* that are graduated, the one just graduated included.
C34_StatsCountTheGraduation ==
    [][\A t \in TokenAddresses :
          (MarkGraduatedStep(t) /\ ret' = "ok")
             => \A c \in CollabIds :
                   collaborations'[c].graduatedAt = <<now'>>
                      => \A a \in collaborations'[c].agents :
                            /\ agentStats'[a].collaborationCount =
                                   Cardinality(TakesPartIn(a))
                            /\ agentStats'[a].successRate =
                                   <<Cardinality(GraduatedOf(a)) * 100,
                                     Cardinality(TakesPartIn(a))>>]_vars

\* ------------------------------------------------------------------------
\* Shares of the agent fees
\* ------------------------------------------------------------------------

\* C35: with buys and claims only, what a quorum member has been paid in
\* all never exceeds the agent fees accrued so far divided by the number of
\* quorum members: a claim made as a transaction of its own, when no member
\* is above its share, leaves the claimant within its share.
C35_NoMemberExceedsItsShare ==
    [][\A m \in quorumMembers :
          (/\ stack = <<>>
           /\ received = 0
           /\ balance - liquidityReserve = accruedAgentFees - ClaimedTotal
           /\ \A n \in quorumMembers :
                 claimed[n] <= accruedAgentFees \div Cardinality(quorumMembers)
           /\ claimAgentFees(m))
             => claimed'[m] <= accruedAgentFees \div Cardinality(quorumMembers)]_vars

\* ------------------------------------------------------------------------
\* Token identity and graduation flags
\* ------------------------------------------------------------------------

\* C36: a Collaboration that is active or completed has its tokenAddress,
\* tokenName and tokenSymbol set.
C36_LaunchedHasTokenIdentity ==
    \A c \in CollabIds :
        collaborations[c].status \in {ACTIVE, COMPLETED}
            => /\ collaborations[c].tokenAddress # NULL
               /\ collaborations[c].tokenName # NULL
               /\ collaborations[c].tokenSymbol # NULL

C36_Witness ==
    \E c \in CollabIds :
        /\ collaborations[c].status = COMPLETED
        /\ collaborations[c].graduated
        /\ collaborations[c].tokenAddress \in TokenAddresses
        /\ collaborations[c].tokenName = tokenContractName(collaborations[c].tokenAddress)
        /\ collaborations[c].tokenSymbol = tokenContractSymbol(collaborations[c].tokenAddress)

\* C37: between transactions and before graduation, the contract's balance
\* covers liquidityReserve, and what it holds above the reserve is the agent
\* fees accrued plus the plain receipts minus the fees claimed.
C37_BalanceCoversReserve ==
    (stack = <<>> /\ ~graduated)
        => /\ balance >= liquidityReserve
           /\ balance - liquidityReserve = accruedAgentFees + received - ClaimedTotal

\* C38: a Collaboration is graduated exactly when its status is completed,
\* and graduatedAt is set exactly when it is graduated.
C38_GraduatedIffCompleted ==
    \A c \in CollabIds :
        /\ collaborations[c].graduated <=> collaborations[c].status = COMPLETED
        /\ collaborations[c].graduatedAt # <<>> <=> collaborations[c].graduated

\* ------------------------------------------------------------------------
\* Effect of a sell
\* ------------------------------------------------------------------------

\* C39: a sell that goes through burns exactly tokenAmount of the seller's
\* tokens and lowers liquidityReserve by exactly the ETH it pays, also when
\* the payment is capped at the reserve, and leaves totalETHRaised,
\* graduated and the other balances as they were; a sell that is rejected
\* changes nothing.
C39_SellBurnsAndPaysFromReserve ==
    [][/\ \A t \in SellAmounts(Trader) :
            (/\ ret' = "pending"
             /\ Len(stack') > Len(stack)
             /\ Head(stack').fn = "sell"
             /\ sell(Trader, t))
               => LET paid == balance - balance'
                  IN  /\ paid > 0
                      /\ Head(stack').value = paid
                      /\ liquidityReserve' = liquidityReserve - paid
                      /\ totalSupply' = totalSupply - t
                      /\ balanceOf'[Trader] = balanceOf[Trader] - t
                      /\ \A h \in Holders \ {Trader} : balanceOf'[h] = balanceOf[h]
                      /\ UNCHANGED <<totalETHRaised, graduated>>
       /\ (ret' \notin {"ok", "pending"} /\ ~UNCHANGED tokenVars)
            => \A t \in SellAmounts(Trader) : ~sell(Trader, t)
       /\ (ret' = "ok" /\ sellReturn)
            => UNCHANGED <<totalSupply, balanceOf, liquidityReserve, balance,
                           totalETHRaised, graduated>>]_vars

\* C39 witness: a sell paid the whole reserve for half of the seller's
\* tokens, which are burnt, and totalETHRaised is what it was
C39_Witness ==
    /\ stack # <<>>
    /\ Head(stack).fn = "sell"
    /\ Head(stack).value = Head(stack).snap.liquidityReserve
    /\ Head(stack).value > 0
    /\ liquidityReserve = 0
    /\ balanceOf[Trader] > 0
    /\ balanceOf[Trader] = Head(stack).snap.balanceOf[Trader] - Head(stack).tokenAmount
    /\ totalSupply = Head(stack).snap.totalSupply - Head(stack).tokenAmount
    /\ totalETHRaised = Head(stack).snap.totalETHRaised
    /\ ~graduated

====
